---- MODULE Spec2Model ----
(***************************************************************************)
(* Model of the process bootstrapper wWinMain of                           *)
(* Project/windows/runner/main.cpp: command-line capture, console          *)
(* attachment decision, COM initialisation, host window creation, the      *)
(* CLI-mode hide step and the native message loop.                         *)
(*                                                                         *)
(* The platform (parent console, debugger, window creation result, the     *)
(* thread's message queue) is the environment: its facts are drawn in Init *)
(* or chosen with \E where the code asks for them.                         *)
(***************************************************************************)
EXTENDS Integers, Sequences, FiniteSets, TLC

\* ---------------------------------------------------------------- bounds
MaxArgs == 2          \* longest argument list drawn
MaxMsgs == 2          \* ordinary (non-quit) messages the platform posts

Tokens == {"--flash", "device1"}

RECURSIVE SeqsUpTo(_)
SeqsUpTo(n) ==
  IF n = 0 THEN {<<>>}
  ELSE LET shorter == SeqsUpTo(n - 1)
       IN  shorter \cup {Append(s, t) : s \in {x \in shorter : Len(x) = n - 1}, t \in Tokens}

ArgLists == SeqsUpTo(MaxArgs)

\* ----------------------------------------------------------------- state
VARIABLES
  argv,                    \* the argument sequence the process was invoked with
  parent_console,          \* platform fact: AttachConsole(ATTACH_PARENT_PROCESS) succeeds
  debugger_present,        \* platform fact: IsDebuggerPresent()
  command_line_arguments,  \* local std::vector<std::string>
  has_cli_args,            \* local bool
  entrypoint_arguments,    \* project's dart entrypoint arguments
  console,                 \* "none" | "parent" | "new"
  com_initialized,         \* COM apartment initialised on this thread
  window_created,          \* window.Create returned true
  window_handle,           \* "NULL" | "HWND"
  window_visible,          \* the host window is shown on screen
  quit_on_close,           \* window.SetQuitOnClose value
  msgq,                    \* the thread's message queue
  msg,                     \* ::MSG msg, the message last retrieved
  posted,                  \* ordinary messages posted so far
  quit_posted,             \* a quit message has been posted
  calls,                   \* the platform / framework calls made, in order
  exit_status,             \* "running" | "EXIT_FAILURE" | "EXIT_SUCCESS"
  pc                       \* position in wWinMain

vars == <<argv, parent_console, debugger_present, command_line_arguments,
          has_cli_args, entrypoint_arguments, console, com_initialized,
          window_created, window_handle, window_visible, quit_on_close,
          msgq, msg, posted, quit_posted, calls, exit_status, pc>>

envFacts == <<argv, parent_console, debugger_present>>
queueVars == <<msgq, msg, posted, quit_posted>>
windowVars == <<window_created, window_handle, window_visible, quit_on_close>>

\* a call record: name, message kind and message id (kind "" / id 0: no message)
Call(name) == <<name, "", 0>>
MsgCall(name, m) == <<name, m.kind, m.id>>

NoMsg == [kind |-> "", id |-> 0]

Called(name) == \E i \in DOMAIN calls : calls[i][1] = name
CountCalls(name) == Cardinality({i \in DOMAIN calls : calls[i][1] = name})

\* ------------------------------------------------------- helper operators

\* utils.cpp GetCommandLineArguments(): the invocation's argument list
GetCommandLineArguments(args) == args

\* line 29 inside the else of line 20/28: allocate a new console?
AllocateNewConsole_NoDebugger(attached, hasArgs, debugger) ==
  ~attached /\ (hasArgs /\ debugger)
AllocateNewConsole_Independent(attached, hasArgs, debugger) ==
  hasArgs \/ debugger
AllocateNewConsole(attached, hasArgs, debugger) ==
  ~attached /\ (hasArgs \/ debugger)

\* line 39: std::move of the vector into the by-value parameter of
\* set_dart_entrypoint_arguments: the callee receives the elements, the
\* moved-from vector is left empty.
MoveArguments_DropFirst(v) ==
  [received |-> IF v = <<>> THEN v ELSE Tail(v), remaining |-> <<>>]
MoveArguments(v) == [received |-> v, remaining |-> <<>>]

\* line 63: `while (::GetMessage(...))` continues on a non-zero return,
\* GetMessage returns zero exactly when it retrieves the quit message.
LoopContinues_Always(m) == TRUE
LoopContinues(m) == m.kind # "WM_QUIT"

\* flutter_window / win32_window Create(): outcomes of window construction.
\* Success yields an existing window with a valid handle (shown or not);
\* failure may or may not leave a native window behind.
CreateOutcomes ==
  {[ok |-> TRUE, handle |-> "HWND", visible |-> v] : v \in BOOLEAN}
  \cup {[ok |-> FALSE, handle |-> h, visible |-> FALSE] : h \in {"NULL", "HWND"}}

\* ------------------------------------------------------------------ Init
Init ==
  /\ argv \in ArgLists
  /\ parent_console \in BOOLEAN
  /\ debugger_present \in BOOLEAN
  /\ command_line_arguments = <<>>
  /\ has_cli_args = FALSE
  /\ entrypoint_arguments = <<>>
  /\ console = "none"
  /\ com_initialized = FALSE
  /\ window_created = FALSE
  /\ window_handle = "NULL"
  /\ window_visible = FALSE
  /\ quit_on_close = FALSE
  /\ msgq = <<>>
  /\ msg = NoMsg
  /\ posted = 0
  /\ quit_posted = FALSE
  /\ calls = <<>>
  /\ exit_status = "running"
  /\ pc = "ParseArguments"

\* --------------------------------------------------------------- actions

\* lines 13-14
ParseArguments ==
  /\ pc = "ParseArguments"
  /\ command_line_arguments' = GetCommandLineArguments(argv)
  /\ has_cli_args' = (command_line_arguments' # <<>>)
  /\ pc' = "ConsoleDecision"
  /\ UNCHANGED <<envFacts, entrypoint_arguments, console, com_initialized,
                 windowVars, queueVars, calls, exit_status>>

\* lines 20-32
ConsoleDecision ==
  /\ pc = "ConsoleDecision"
  /\ LET attached == parent_console
         allocate == AllocateNewConsole(attached, has_cli_args, debugger_present)
         attachCalls ==
           IF attached
           THEN <<Call("AttachConsole"), Call("freopen_s stdout"),
                  Call("freopen_s stderr"), Call("sync_with_stdio"),
                  Call("FlutterDesktopResyncOutputStreams")>>
           ELSE <<Call("AttachConsole")>>
         debuggerCalls ==
           IF ~attached /\ ~has_cli_args THEN <<Call("IsDebuggerPresent")>> ELSE <<>>
         allocateCalls ==
           IF allocate THEN <<Call("CreateAndAttachConsole")>> ELSE <<>>
     IN  /\ calls' = calls \o attachCalls \o debuggerCalls \o allocateCalls
         /\ console' = IF allocate THEN "new"
                       ELSE IF attached THEN "parent" ELSE "none"
  /\ pc' = "CoInitializeEx"
  /\ UNCHANGED <<envFacts, command_line_arguments, has_cli_args,
                 entrypoint_arguments, com_initialized, windowVars, queueVars,
                 exit_status>>

\* line 36
CoInitializeEx ==
  /\ pc = "CoInitializeEx"
  /\ com_initialized' = TRUE
  /\ calls' = Append(calls, Call("CoInitializeEx"))
  /\ pc' = "SetEntrypointArguments"
  /\ UNCHANGED <<envFacts, command_line_arguments, has_cli_args,
                 entrypoint_arguments, console, windowVars, queueVars,
                 exit_status>>

\* lines 38-39
SetEntrypointArguments ==
  /\ pc = "SetEntrypointArguments"
  /\ LET moved == MoveArguments(command_line_arguments)
     IN  /\ entrypoint_arguments' = moved.received
         /\ command_line_arguments' = moved.remaining
  /\ calls' = Append(calls, Call("set_dart_entrypoint_arguments"))
  /\ pc' = "CreateWindow"
  /\ UNCHANGED <<envFacts, has_cli_args, console, com_initialized, windowVars,
                 queueVars, exit_status>>

\* lines 41-48, Create returns true
CreateWindowSucceeds ==
  /\ pc = "CreateWindow"
  /\ \E o \in CreateOutcomes :
       /\ o.ok
       /\ window_created' = TRUE
       /\ window_handle' = o.handle
       /\ window_visible' = o.visible
  /\ calls' = Append(calls, Call("Create"))
  /\ pc' = "HideWindow"
  /\ UNCHANGED <<envFacts, command_line_arguments, has_cli_args,
                 entrypoint_arguments, console, com_initialized, quit_on_close,
                 queueVars, exit_status>>

\* lines 41-50, Create returns false: return EXIT_FAILURE
CreateWindowFailsWith(status, next) ==
  /\ pc = "CreateWindow"
  /\ \E o \in CreateOutcomes :
       /\ ~o.ok
       /\ window_created' = FALSE
       /\ window_handle' = o.handle
       /\ window_visible' = o.visible
  /\ calls' = Append(calls, Call("Create"))
  /\ exit_status' = status
  /\ pc' = next
  /\ UNCHANGED <<envFacts, command_line_arguments, has_cli_args,
                 entrypoint_arguments, console, com_initialized, quit_on_close,
                 queueVars>>

CreateWindowFails_FallsThrough == CreateWindowFailsWith("running", "HideWindow")
CreateWindowFails_ReturnsSuccess == CreateWindowFailsWith("EXIT_SUCCESS", "Exit")
CreateWindowFails == CreateWindowFailsWith("EXIT_FAILURE", "Exit")

\* lines 52-58, with the condition of line 52 as a parameter
HideWindowIf(cliMode) ==
  /\ pc = "HideWindow"
  /\ IF cliMode
     THEN LET hwnd == window_handle     \* window.GetHandle()
          IN  IF hwnd # "NULL"
              THEN /\ window_visible' = FALSE
                   /\ calls' = Append(Append(calls, Call("GetHandle")),
                                      Call("ShowWindow SW_HIDE"))
              ELSE /\ calls' = Append(calls, Call("GetHandle"))
                   /\ UNCHANGED window_visible
     ELSE UNCHANGED <<window_visible, calls>>
  /\ pc' = "SetQuitOnClose"
  /\ UNCHANGED <<envFacts, command_line_arguments, has_cli_args,
                 entrypoint_arguments, console, com_initialized, window_created,
                 window_handle, quit_on_close, queueVars, exit_status>>

HideWindow_Inverted == HideWindowIf(~has_cli_args)
HideWindow_ReadsMovedVector == HideWindowIf(command_line_arguments # <<>>)
HideWindow_IfConsole == HideWindowIf(console # "none")
HideWindow == HideWindowIf(has_cli_args)

\* line 60
SetQuitOnClose ==
  /\ pc = "SetQuitOnClose"
  /\ quit_on_close' = TRUE
  /\ calls' = Append(calls, Call("SetQuitOnClose"))
  /\ pc' = "GetMessage"
  /\ UNCHANGED <<envFacts, command_line_arguments, has_cli_args,
                 entrypoint_arguments, console, com_initialized, window_created,
                 window_handle, window_visible, queueVars, exit_status>>

\* line 63: GetMessage blocks until the queue holds a message
GetMessage ==
  /\ pc = "GetMessage"
  /\ msgq # <<>>
  /\ msg' = Head(msgq)
  /\ msgq' = Tail(msgq)
  /\ calls' = Append(calls, MsgCall("GetMessage", Head(msgq)))
  /\ pc' = IF LoopContinues(Head(msgq)) THEN "TranslateMessage" ELSE "CoUninitialize"
  /\ UNCHANGED <<envFacts, command_line_arguments, has_cli_args,
                 entrypoint_arguments, console, com_initialized, windowVars,
                 posted, quit_posted, exit_status>>

\* line 64
TranslateMessage ==
  /\ pc = "TranslateMessage"
  /\ calls' = Append(calls, MsgCall("TranslateMessage", msg))
  /\ pc' = "DispatchMessage"
  /\ UNCHANGED <<envFacts, command_line_arguments, has_cli_args,
                 entrypoint_arguments, console, com_initialized, windowVars,
                 queueVars, exit_status>>

\* line 65
DispatchMessage ==
  /\ pc = "DispatchMessage"
  /\ calls' = Append(calls, MsgCall("DispatchMessage", msg))
  /\ pc' = "GetMessage"
  /\ UNCHANGED <<envFacts, command_line_arguments, has_cli_args,
                 entrypoint_arguments, console, com_initialized, windowVars,
                 queueVars, exit_status>>

\* line 68
CoUninitialize ==
  /\ pc = "CoUninitialize"
  /\ com_initialized' = FALSE
  /\ calls' = Append(calls, Call("CoUninitialize"))
  /\ pc' = "Return"
  /\ UNCHANGED <<envFacts, command_line_arguments, has_cli_args,
                 entrypoint_arguments, console, windowVars, queueVars,
                 exit_status>>

\* line 69
ReturnSuccess ==
  /\ pc = "Return"
  /\ exit_status' = "EXIT_SUCCESS"
  /\ pc' = "Exit"
  /\ UNCHANGED <<envFacts, command_line_arguments, has_cli_args,
                 entrypoint_arguments, console, com_initialized, windowVars,
                 queueVars, calls>>

\* ----------------------------------------------------------- environment

\* the platform posts an ordinary message to the thread's queue
PlatformPostsMessage ==
  /\ window_created
  /\ pc # "Exit"
  /\ posted < MaxMsgs
  /\ posted' = posted + 1
  /\ msgq' = Append(msgq, [kind |-> "WM_APP", id |-> posted + 1])
  /\ UNCHANGED <<envFacts, command_line_arguments, has_cli_args,
                 entrypoint_arguments, console, com_initialized, windowVars,
                 msg, quit_posted, calls, exit_status, pc>>

\* the platform posts the quit message
PlatformPostsQuit ==
  /\ window_created
  /\ pc # "Exit"
  /\ ~quit_posted
  /\ quit_posted' = TRUE
  /\ msgq' = Append(msgq, [kind |-> "WM_QUIT", id |-> 0])
  /\ UNCHANGED <<envFacts, command_line_arguments, has_cli_args,
                 entrypoint_arguments, console, com_initialized, windowVars,
                 msg, posted, calls, exit_status, pc>>

\* ------------------------------------------------------- specifications
Program ==
  \/ ParseArguments
  \/ ConsoleDecision
  \/ CoInitializeEx
  \/ SetEntrypointArguments
  \/ CreateWindowSucceeds
  \/ CreateWindowFails
  \/ HideWindow
  \/ SetQuitOnClose
  \/ GetMessage
  \/ TranslateMessage
  \/ DispatchMessage
  \/ CoUninitialize
  \/ ReturnSuccess

Next ==
  \/ ParseArguments
  \/ ConsoleDecision
  \/ CoInitializeEx
  \/ SetEntrypointArguments
  \/ CreateWindowSucceeds
  \/ CreateWindowFails
  \/ HideWindow
  \/ SetQuitOnClose
  \/ GetMessage
  \/ TranslateMessage
  \/ DispatchMessage
  \/ CoUninitialize
  \/ ReturnSuccess
  \/ PlatformPostsMessage
  \/ PlatformPostsQuit

Spec == Init /\ [][Next]_vars

\* the UI thread keeps running: every call of wWinMain returns and the next
\* statement executes (GetMessage returns once a message is queued)
FairSpec == Init /\ [][Next]_vars /\ WF_vars(Program)

\* ------------------------------------------------------------ properties

Hidden == "ShowWindow SW_HIDE"
CreateFailed == Called("Create") /\ ~window_created
LoopCalls == {"GetMessage", "TranslateMessage", "DispatchMessage"}
EntryArgumentsSet == Called("set_dart_entrypoint_arguments")
LoopEntry == pc = "GetMessage" /\ ~Called("GetMessage")
InLoop == pc \in LoopCalls

\* C1: in every run where window.Create fails the process returns the failure
\* exit status and neither the message loop (GetMessage / TranslateMessage /
\* DispatchMessage), nor ShowWindow(SW_HIDE), nor SetQuitOnClose occurs.
C1_CreateFailureExitsWithoutLoop ==
  CreateFailed =>
    /\ pc = "Exit"
    /\ exit_status = "EXIT_FAILURE"
    /\ \A n \in LoopCalls \cup {Hidden, "SetQuitOnClose"} : ~Called(n)

C1_Witness == CreateFailed /\ pc = "Exit" /\ exit_status = "EXIT_FAILURE"

\* C2: COM, once initialised by wWinMain, is torn down before exit on every
\* return path: no terminal state is reached with COM still initialised.
C2_ComTornDownOnEveryReturn == pc = "Exit" => ~com_initialized

\* C3: the console decision is exclusive: whenever attaching to the parent
\* console succeeds, stdout/stderr are redirected and the output streams
\* resynchronised and no new console is allocated, whatever the arguments and
\* the debugger; in no run do both console branches execute.
C3_ParentConsoleExcludesNewConsole ==
  /\ (Called("AttachConsole") /\ parent_console) =>
       /\ console = "parent"
       /\ ~Called("CreateAndAttachConsole")
       /\ \A n \in {"freopen_s stdout", "freopen_s stderr", "sync_with_stdio",
                    "FlutterDesktopResyncOutputStreams"} : CountCalls(n) = 1
  /\ ~(Called("FlutterDesktopResyncOutputStreams") /\ Called("CreateAndAttachConsole"))
  /\ ~(Called("freopen_s stdout") /\ Called("CreateAndAttachConsole"))

C3_Witness ==
  /\ parent_console /\ argv # <<>> /\ debugger_present
  /\ Called("FlutterDesktopResyncOutputStreams")
  /\ pc = "CoInitializeEx"

\* C4: when attaching to a parent console fails, a new console is allocated
\* and attached if and only if the argument list is non-empty or a debugger is
\* present; with empty arguments and no debugger there is no console at all.
C4_NewConsoleIffArgsOrDebugger ==
  (Called("AttachConsole") /\ ~parent_console) =>
    /\ Called("CreateAndAttachConsole") <=> (argv # <<>> \/ debugger_present)
    /\ console = (IF argv # <<>> \/ debugger_present THEN "new" ELSE "none")
    /\ ~Called("freopen_s stdout")

C4_Witness ==
  /\ ~parent_console /\ argv = <<>> /\ debugger_present
  /\ Called("CreateAndAttachConsole")
  /\ console = "new"

\* C5: if has_cli_args is true and window construction succeeds, then when the
\* message loop is entered (before the first message is retrieved) the window
\* exists and is not shown: the hide step has been applied to it.
C5_CliWindowHiddenAtLoopEntry ==
  (has_cli_args /\ window_created /\ LoopEntry) =>
    /\ window_handle # "NULL"
    /\ Called(Hidden)
    /\ ~window_visible

C5_Witness == has_cli_args /\ window_created /\ LoopEntry /\ Called(Hidden)

\* C6: the entrypoint arguments delivered to the project descriptor are
\* exactly the argument sequence passed to the process: same length, same
\* elements, same order.
C6_ArgumentsForwardedVerbatim ==
  EntryArgumentsSet =>
    /\ Len(entrypoint_arguments) = Len(argv)
    /\ \A i \in 1..Len(argv) : entrypoint_arguments[i] = argv[i]

C6_Witness ==
  /\ EntryArgumentsSet
  /\ Len(argv) >= 2 /\ argv[1] # argv[2]
  /\ entrypoint_arguments = argv

\* C7: once the argument sequence has been moved into the project descriptor
\* the flag has_cli_args still equals "the original argument list was
\* non-empty", it never changes afterwards, and the window-hide decision
\* follows that flag and not the (now empty) moved-from vector.
C7_FlagState ==
  EntryArgumentsSet =>
    /\ has_cli_args = (argv # <<>>)
    /\ Called("SetQuitOnClose") => (Called("GetHandle") <=> (argv # <<>>))

C7_FlagDerivedOnceHideReadsFlag ==
  /\ []C7_FlagState
  /\ [][EntryArgumentsSet => has_cli_args' = has_cli_args]_vars
  /\ [][pc # "ParseArguments" => has_cli_args' = has_cli_args]_vars

C7_Witness ==
  /\ EntryArgumentsSet
  /\ argv # <<>> /\ command_line_arguments = <<>>
  /\ has_cli_args
  /\ Called("GetHandle") /\ Called("SetQuitOnClose")

\* lifecycle stage of a call: console decision, component initialisation,
\* project set-up, window construction, visibility, quit-on-close, event loop,
\* component teardown
Rank(name) ==
  CASE name \in {"AttachConsole", "freopen_s stdout", "freopen_s stderr",
                 "sync_with_stdio", "FlutterDesktopResyncOutputStreams",
                 "IsDebuggerPresent", "CreateAndAttachConsole"} -> 1
    [] name = "CoInitializeEx" -> 2
    [] name = "set_dart_entrypoint_arguments" -> 3
    [] name = "Create" -> 4
    [] name \in {"GetHandle", Hidden} -> 5
    [] name = "SetQuitOnClose" -> 6
    [] name \in LoopCalls -> 7
    [] name = "CoUninitialize" -> 8
    [] OTHER -> 0

QuitRetrieved ==
  \E i \in DOMAIN calls : calls[i] = <<"GetMessage", "WM_QUIT", 0>>

C9_LoopDiscipline ==
  /\ \A i \in DOMAIN calls :
       LET c == calls[i]
           last == i = Len(calls)
       IN  /\ c[1] = "GetMessage" =>
                IF c[2] = "WM_QUIT"
                THEN last \/ calls[i + 1][1] = "CoUninitialize"
                ELSE last \/ calls[i + 1] = <<"TranslateMessage", c[2], c[3]>>
           /\ c[1] = "TranslateMessage" =>
                /\ i > 1 /\ calls[i - 1] = <<"GetMessage", c[2], c[3]>>
                /\ c[2] # "WM_QUIT"
                /\ last \/ calls[i + 1] = <<"DispatchMessage", c[2], c[3]>>
           /\ c[1] = "DispatchMessage" =>
                /\ i > 1 /\ calls[i - 1] = <<"TranslateMessage", c[2], c[3]>>
                /\ last \/ calls[i + 1][1] = "GetMessage"
           /\ c[1] = "CoUninitialize" =>
                i > 1 /\ calls[i - 1] = <<"GetMessage", "WM_QUIT", 0>>
  /\ \A i, j \in DOMAIN calls :
       (calls[i] = calls[j] /\ calls[i][1] \in LoopCalls) => i = j
  /\ pc = "TranslateMessage" => calls[Len(calls)] = MsgCall("GetMessage", msg)
  /\ pc = "DispatchMessage" => calls[Len(calls)] = MsgCall("TranslateMessage", msg)
  /\ pc \in {"CoUninitialize", "Return", "Exit"} /\ window_created => quit_posted
  /\ exit_status = "EXIT_SUCCESS" => quit_posted /\ QuitRetrieved
  /\ (InLoop /\ ~quit_posted /\ msgq = <<>> /\ pc = "GetMessage") => ~(ENABLED Program)

C10_HideDependsOnlyOnArgs ==
  /\ argv = <<>> => ~Called(Hidden) /\ ~Called("GetHandle")
  /\ (argv # <<>> /\ window_created /\ window_handle # "NULL"
        /\ Called("SetQuitOnClose")) =>
       Called(Hidden) /\ ~window_visible

C10_Witness ==
  /\ argv = <<>>
  /\ console = "new"
  /\ Called("SetQuitOnClose")
  /\ window_visible
  /\ ~Called(Hidden)

====
